---- MODULE Spec2Model ----
(***************************************************************************)
(* Order-book exchange and P2P marketplace of the Bitrader backend:        *)
(* backend/routers/orderbook.py, backend/routers/p2p.py and                *)
(* backend/services/ad_expiration_service.py, over the tables of           *)
(* backend/models/__init__.py.                                             *)
(*                                                                         *)
(* Amounts are integers.  One quantity lot is FEE_DEN units, so that the   *)
(* trading fee (FEE_NUM / FEE_DEN of the notional) and the buyer's fee     *)
(* share are exact, as they are with Decimal at the values in use.         *)
(***************************************************************************)
EXTENDS Integers, Sequences, FiniteSets, TLC

VARIABLES
    wallets,        \* table wallets: (user_id, currency) -> balances
    orders,         \* table orderbook_orders, in id order
    trades,         \* table trades, in id order
    transactions,   \* table transactions, in id order
    ads,            \* table p2p_advertisements, in id order
    p2p_trades,     \* table p2p_trades, in id order
    escrows,        \* table escrow, in id order
    notifications,  \* table notifications, in id order
    disputes,       \* table disputes, in id order
    clock,          \* the database's func.now() / datetime.utcnow()
    pc,             \* position of the request being served
    sessions,       \* what each concurrent request's database session holds
    last            \* the last call made: the operation and its HTTP status

vars == <<wallets, orders, trades, transactions, ads, p2p_trades, escrows,
          notifications, disputes, clock, pc, sessions, last>>

----------------------------------------------------------------------------
(* Bounds of the model *)

MaxOrders == 3          \* orders ever admitted
MaxPrice == 2           \* prices are 1..MaxPrice
MaxLots == 2            \* quantities are 1..MaxLots lots
InitQuoteLots == 4      \* initial USD of a user, in lots
InitBaseLots == 2       \* initial BTC of a user, in lots
MaxAds == 2             \* advertisements ever posted
MaxP2PTrades == 1       \* trades after which no further trade is requested
MaxDepth == 2           \* depth argument of get_order_book is 1..MaxDepth
MaxClock == 2           \* the time that passes, in minutes

(* settings.TRADING_FEE_PERCENTAGE / 100 = 0.1 / 100 = FEE_NUM / FEE_DEN *)
FEE_NUM == 1
FEE_DEN == 1000

Lot == FEE_DEN

----------------------------------------------------------------------------
(* Values *)

None == <<>>                    \* Python None, SQL NULL
Some(x) == <<x>>
Val(p) == p[1]

Users == {"u1", "u2", "u3"}
UsersWithBase == {"u1", "u2"}   \* u3 never got a BTC wallet

OpenStatuses == {"PENDING", "PARTIALLY_FILLED"}

Min(a, b) == IF a <= b THEN a ELSE b

(* str.split("/") on the instruments submitted *)
Split(instrument) ==
    CASE instrument = "BTC/USD" -> <<"BTC", "USD">>
      [] instrument = "BTCUSD" -> <<"BTCUSD">>
      [] OTHER -> <<instrument>>

(* OrderType(value): the enum has the members BUY and SELL *)
OrderTypeValues == {"BUY", "SELL"}

DB == [wallets |-> wallets, orders |-> orders, trades |-> trades,
       transactions |-> transactions, ads |-> ads, p2p_trades |-> p2p_trades,
       escrows |-> escrows, notifications |-> notifications, disputes |-> disputes]

----------------------------------------------------------------------------
(* Ledger steps on a wallet row *)

HasWallet(db, u, c) == <<u, c>> \in DOMAIN db.wallets

Lock(w, amount) ==
    [w EXCEPT !.available_balance = @ - amount, !.locked_balance = @ + amount]

Unlock(w, amount) ==
    [w EXCEPT !.locked_balance = @ - amount, !.available_balance = @ + amount]

DebitLocked(w, amount) == [w EXCEPT !.locked_balance = @ - amount]

Credit(w, amount) == [w EXCEPT !.available_balance = @ + amount]

Tx(u, c, type, amount) ==
    [wallet |-> <<u, c>>, type |-> type, amount |-> amount, currency |-> c]

----------------------------------------------------------------------------
(* create_order, up to its commit *)

(* required_amount = quantity * (price or 0) *)
RequiredAmount(data) ==
    data.quantity * (IF data.price = None THEN 0 ELSE Val(data.price))

LockWallet(data) ==
    LET parts == Split(data.instrument) IN
    IF data.order_type = "BUY" THEN parts[2] ELSE parts[1]

(* Mutant of LockAmount: a BUY locks the quantity, not the notional *)
LockAmountIgnoresPrice(data) == data.quantity

LockAmount(data) ==
    IF data.order_type = "BUY" THEN RequiredAmount(data) ELSE data.quantity

(* The validations, in the order of the code: the HTTP status they raise,  *)
(* or "ok".                                                                *)
Validate(db, u, data) ==
    IF data.order_subtype = "LIMIT" /\ data.price = None THEN "400"
    ELSE IF data.price # None /\ Val(data.price) <= 0 THEN "400"
    ELSE IF data.quantity <= 0 THEN "400"
    ELSE IF Len(Split(data.instrument)) # 2 THEN "400"
    ELSE IF ~HasWallet(db, u, LockWallet(data)) THEN "400"
    ELSE IF db.wallets[<<u, LockWallet(data)>>].available_balance < LockAmount(data)
        THEN "400"
    ELSE "ok"

NewOrder(db, u, data, now) ==
    [id |-> Len(db.orders) + 1,
     user_id |-> u,
     instrument |-> data.instrument,
     order_type |-> data.order_type,
     order_subtype |-> data.order_subtype,
     price |-> data.price,
     quantity |-> data.quantity,
     remaining_quantity |-> data.quantity,
     status |-> "PENDING",
     created_at |-> now]

(* The session after the lock and, when the enum accepts order_type, the   *)
(* inserted row.                                                           *)
LockFunds(db, u, data) ==
    [db EXCEPT !.wallets[<<u, LockWallet(data)>>] = Lock(@, LockAmount(data))]

CreateOrderSession(db, u, data, now) ==
    LET locked == LockFunds(db, u, data) IN
    IF data.order_type \in OrderTypeValues
    THEN [locked EXCEPT !.orders = Append(@, NewOrder(db, u, data, now))]
    ELSE locked

CreateOrderStatus(db, u, data) ==
    IF Validate(db, u, data) # "ok" THEN Validate(db, u, data)
    ELSE IF data.order_type \notin OrderTypeValues THEN "500"
    ELSE "201"

(* Mutant of CreateOrderCommitted: the commit follows the lock, before    *)
(* the row is built                                                        *)
CreateOrderCommitsLock(db, u, data, now) ==
    IF Validate(db, u, data) = "ok"
    THEN CreateOrderSession(db, u, data, now)
    ELSE db

(* The database after the request: the session is committed by the       *)
(* db.commit() that follows the insert; a request that raised before it   *)
(* leaves the database as it was.                                          *)
CreateOrderCommitted(db, u, data, now) ==
    IF CreateOrderStatus(db, u, data) = "201"
    THEN CreateOrderSession(db, u, data, now)
    ELSE db

----------------------------------------------------------------------------
(* match_order *)

Opposite(side) == IF side = "BUY" THEN "SELL" ELSE "BUY"

(* Mutant of PriceFilter: a candidate at the aggressor's own price is     *)
(* left out                                                                *)
PriceFilterStrict(order, m) ==
    IF order.price = None THEN TRUE
    ELSE /\ m.price # None
         /\ IF order.order_type = "BUY"
            THEN Val(m.price) < Val(order.price)
            ELSE Val(m.price) > Val(order.price)

(* The WHERE clause of the candidate query.  A comparison with a NULL     *)
(* price is not true, so an unpriced row passes only an unpriced          *)
(* aggressor's query.                                                      *)
PriceFilter(order, m) ==
    IF order.price = None THEN TRUE
    ELSE /\ m.price # None
         /\ IF order.order_type = "BUY"
            THEN Val(m.price) <= Val(order.price)
            ELSE Val(m.price) >= Val(order.price)

MatchingOrders(db, oid) ==
    LET order == db.orders[oid] IN
    {i \in DOMAIN db.orders :
        /\ db.orders[i].instrument = order.instrument
        /\ db.orders[i].order_type = Opposite(order.order_type)
        /\ db.orders[i].status \in OpenStatuses
        /\ db.orders[i].id # order.id
        /\ PriceFilter(order, db.orders[i])}

(* SQLite's ordering of prices: NULL sorts before every value *)
PriceBefore(p, q) ==
    IF p = None THEN q # None ELSE q # None /\ Val(p) < Val(q)

(* Mutant of SortsBefore: within a price level the newest row comes     *)
(* first                                                                   *)
SortsBeforeNewestFirst(side, a, b) ==
    \/ IF side = "BUY" THEN PriceBefore(a.price, b.price)
                       ELSE PriceBefore(b.price, a.price)
    \/ a.price = b.price /\ a.created_at > b.created_at

(* ORDER BY price, created_at (BUY aggressor) or                          *)
(* ORDER BY price DESC, created_at (SELL aggressor): row a sorts strictly *)
(* before row b                                                            *)
SortsBefore(side, a, b) ==
    \/ IF side = "BUY" THEN PriceBefore(a.price, b.price)
                       ELSE PriceBefore(b.price, a.price)
    \/ a.price = b.price /\ a.created_at < b.created_at

(* Every result list the query may return: rows with equal sort keys come *)
(* in any order.                                                           *)
QueryResults(db, oid) ==
    LET S == MatchingOrders(db, oid)
        n == Cardinality(S)
    IN {s \in [1..n -> S] :
          /\ \A i, j \in 1..n : i # j => s[i] # s[j]
          /\ \A i, j \in 1..n :
                i < j => ~SortsBefore(db.orders[oid].order_type,
                                      db.orders[s[j]], db.orders[s[i]])}

Fee(trade_amount) == (trade_amount * FEE_NUM) \div FEE_DEN

(* Mutant of FillStatus: an order with something left keeps its status *)
FillStatusOnlyWhenUsedUp(o) ==
    IF o.remaining_quantity = 0 THEN "FILLED" ELSE o.status

FillStatus(o) ==
    IF o.remaining_quantity = 0 THEN "FILLED"
    ELSE IF o.remaining_quantity < o.quantity THEN "PARTIALLY_FILLED"
    ELSE o.status

Fill(o, q) ==
    LET f == [o EXCEPT !.remaining_quantity = @ - q] IN
    [f EXCEPT !.status = FillStatus(f)]

(* Mutant of TradePrice: the aggressor's price when it has one *)
TradePriceOfAggressor(order, matching_order) ==
    IF order.price = None THEN matching_order.price ELSE order.price

TradePrice(order, matching_order) == matching_order.price

(* Mutant of TradeQuantity: the aggressor's remainder, whatever the       *)
(* candidate has left                                                      *)
TradeQuantityOfAggressor(order, matching_order) == order.remaining_quantity

TradeQuantity(order, matching_order) ==
    Min(order.remaining_quantity, matching_order.remaining_quantity)

(* execute_trade_settlement: each step is skipped when the wallet row is  *)
(* missing.                                                                *)
SettleStep(db, present, u, c, w, amount) ==
    IF present
    THEN [db EXCEPT !.wallets[<<u, c>>] = w,
                    !.transactions = Append(@, Tx(u, c, "TRADE", amount))]
    ELSE db

execute_trade_settlement(db, buyer_id, seller_id, base, quote, quantity, amount, fee) ==
    LET received_quantity == quantity - ((quantity * fee) \div amount)
        received_amount == amount - fee
        d1 == IF HasWallet(db, buyer_id, quote)
              THEN SettleStep(db, TRUE, buyer_id, quote,
                       DebitLocked(db.wallets[<<buyer_id, quote>>], amount), -amount)
              ELSE db
        d2 == IF HasWallet(d1, buyer_id, base)
              THEN SettleStep(d1, TRUE, buyer_id, base,
                       Credit(d1.wallets[<<buyer_id, base>>], received_quantity),
                       received_quantity)
              ELSE d1
        d3 == IF HasWallet(d2, seller_id, base)
              THEN SettleStep(d2, TRUE, seller_id, base,
                       DebitLocked(d2.wallets[<<seller_id, base>>], quantity), -quantity)
              ELSE d2
        d4 == IF HasWallet(d3, seller_id, quote)
              THEN SettleStep(d3, TRUE, seller_id, quote,
                       Credit(d3.wallets[<<seller_id, quote>>], received_amount),
                       received_amount)
              ELSE d3
    IN d4

(* One iteration of the loop of match_order: the fill of both orders, the *)
(* Trade row, the settlement and the commit.  resting is not a column:    *)
(* it records which candidate the trade was made against.                  *)
ExecuteMatch(db, oid, mid) ==
    LET order == db.orders[oid]
        matching_order == db.orders[mid]
        trade_quantity == TradeQuantity(order, matching_order)
        trade_price == Val(TradePrice(order, matching_order))
        trade_amount == trade_quantity * trade_price
        fee == Fee(trade_amount)
        parts == Split(order.instrument)
        buyer_id == IF order.order_type = "BUY" THEN order.user_id
                    ELSE matching_order.user_id
        seller_id == IF order.order_type = "BUY" THEN matching_order.user_id
                     ELSE order.user_id
        trade == [order_id |-> order.id,
                  resting |-> matching_order.id,
                  buyer_id |-> buyer_id,
                  seller_id |-> seller_id,
                  instrument |-> order.instrument,
                  price |-> trade_price,
                  quantity |-> trade_quantity,
                  total_amount |-> trade_amount,
                  fee |-> fee]
        filled == [db EXCEPT !.orders[oid] = Fill(@, trade_quantity),
                             !.orders[mid] = Fill(@, trade_quantity),
                             !.trades = Append(@, trade)]
    IN execute_trade_settlement(filled, buyer_id, seller_id, parts[1], parts[2],
                                trade_quantity, trade_amount, fee)

(* The loop over the query's result.  A candidate without a price makes   *)
(* trade_quantity * trade_price raise TypeError before anything is        *)
(* written; create_order catches it and the iterations already committed  *)
(* stay.                                                                   *)
RECURSIVE MatchLoop(_, _, _)
MatchLoop(db, oid, matching_orders) ==
    IF matching_orders = <<>> THEN db
    ELSE IF db.orders[oid].remaining_quantity <= 0 THEN db
    ELSE IF TradePrice(db.orders[oid], db.orders[Head(matching_orders)]) = None THEN db
    ELSE MatchLoop(ExecuteMatch(db, oid, Head(matching_orders)), oid,
                   Tail(matching_orders))

match_order(db, oid, matching_orders) ==
    IF oid \notin DOMAIN db.orders \/ db.orders[oid].remaining_quantity <= 0
    THEN db
    ELSE MatchLoop(db, oid, matching_orders)

----------------------------------------------------------------------------
(* cancel_order *)

(* Mutant of CancelStatus: the order's status is not looked at *)
CancelStatusOfAnyOrder(db, u, order_id) ==
    IF order_id \notin DOMAIN db.orders \/ db.orders[order_id].user_id # u THEN "404"
    ELSE IF db.orders[order_id].order_type = "BUY" /\ db.orders[order_id].price = None
        THEN "500"
    ELSE "200"

CancelStatus(db, u, order_id) ==
    IF order_id \notin DOMAIN db.orders \/ db.orders[order_id].user_id # u THEN "404"
    ELSE IF db.orders[order_id].status \notin OpenStatuses THEN "400"
    ELSE IF db.orders[order_id].order_type = "BUY" /\ db.orders[order_id].price = None
        THEN "500"      \* remaining_quantity * None raises TypeError
    ELSE "200"

CancelUnlock(db, order) ==
    LET parts == Split(order.instrument)
        c == IF order.order_type = "BUY" THEN parts[2] ELSE parts[1]
        locked_amount == IF order.order_type = "BUY"
                         THEN order.remaining_quantity * Val(order.price)
                         ELSE order.remaining_quantity
    IN IF HasWallet(db, order.user_id, c)
       THEN [db EXCEPT !.wallets[<<order.user_id, c>>] = Unlock(@, locked_amount)]
       ELSE db

CancelOrderSession(db, order_id) ==
    [CancelUnlock(db, db.orders[order_id]) EXCEPT !.orders[order_id].status = "CANCELLED"]

CancelOrderCommitted(db, u, order_id) ==
    IF CancelStatus(db, u, order_id) = "200"
    THEN CancelOrderSession(db, order_id)
    ELSE db


----------------------------------------------------------------------------
(* P2P marketplace: create_auto_trade *)

Notify(db, u, type) ==
    [db EXCEPT !.notifications = Append(@, [user_id |-> u, type |-> type])]

(* The seller's funds are locked only when the wallet row exists and      *)
(* covers the amount; the escrow and the trade are created either way.    *)
LockSeller(db, seller_id, currency, amount) ==
    IF /\ HasWallet(db, seller_id, currency)
       /\ db.wallets[<<seller_id, currency>>].available_balance >= amount
    THEN [db EXCEPT !.wallets[<<seller_id, currency>>] = Lock(@, amount)]
    ELSE db

NewEscrow(db, amount, currency) ==
    [id |-> Len(db.escrows) + 1, amount |-> amount, currency |-> currency,
     status |-> "LOCKED"]

NewP2PTrade(db, ad, buyer_id, seller_id, amount, total_fiat, escrow_id) ==
    [id |-> Len(db.p2p_trades) + 1,
     advertisement_id |-> ad.id,
     buyer_id |-> buyer_id,
     seller_id |-> seller_id,
     amount |-> amount,
     price |-> ad.price,
     total_fiat |-> total_fiat,
     currency |-> ad.currency,
     fiat_currency |-> ad.fiat_currency,
     status |-> "PENDING",
     escrow_id |-> escrow_id]

create_auto_trade(db, ad1, ad2, amount) ==
    LET seller_ad == IF db.ads[ad1].ad_type = "SELL" THEN db.ads[ad1] ELSE db.ads[ad2]
        buyer_ad == IF db.ads[ad1].ad_type = "SELL" THEN db.ads[ad2] ELSE db.ads[ad1]
        buyer_id == buyer_ad.user_id
        seller_id == seller_ad.user_id
        total_fiat == amount * seller_ad.price
        escrow == NewEscrow(db, amount, seller_ad.currency)
        d1 == [db EXCEPT !.escrows = Append(@, escrow)]
        d2 == LockSeller(d1, seller_id, seller_ad.currency, amount)
        d3 == [d2 EXCEPT !.p2p_trades =
                  Append(@, NewP2PTrade(d2, seller_ad, buyer_id, seller_id, amount,
                                        total_fiat, escrow.id))]
        d4 == [d3 EXCEPT !.ads[ad1].available_amount = @ - amount]
        d5 == [d4 EXCEPT !.ads[ad2].available_amount = @ - amount]
    IN Notify(Notify(d5, buyer_id, "P2P_MATCH"), seller_id, "P2P_MATCH")

----------------------------------------------------------------------------
(* create_advertisement *)

CreateAdStatus(db, u, ad_data) ==
    IF /\ ad_data.ad_type = "SELL"
       /\ \/ ~HasWallet(db, u, ad_data.currency)
          \/ db.wallets[<<u, ad_data.currency>>].available_balance
                < ad_data.available_amount
    THEN "400"
    ELSE "201"

NewAd(db, u, ad_data, now) ==
    [id |-> Len(db.ads) + 1,
     user_id |-> u,
     ad_type |-> ad_data.ad_type,
     currency |-> ad_data.currency,
     fiat_currency |-> ad_data.fiat_currency,
     price |-> ad_data.price,
     min_limit |-> ad_data.min_limit,
     max_limit |-> ad_data.max_limit,
     available_amount |-> ad_data.available_amount,
     payment_methods |-> ad_data.payment_methods,
     payment_time_limit |-> ad_data.payment_time_limit,
     is_active |-> TRUE,
     created_at |-> now]

(* The advertisements of the matching query that share a payment method  *)
(* with the new one                                                        *)
CompatibleAds(db, u, ad_data) ==
    {i \in DOMAIN db.ads :
        /\ db.ads[i].user_id # u
        /\ db.ads[i].ad_type = Opposite(ad_data.ad_type)
        /\ db.ads[i].currency = ad_data.currency
        /\ db.ads[i].fiat_currency = ad_data.fiat_currency
        /\ db.ads[i].price = ad_data.price
        /\ db.ads[i].is_active
        /\ ad_data.payment_methods \cap db.ads[i].payment_methods # {}}

(* The query has no ORDER BY: the first compatible row is any of them.    *)
(* 0 stands for matched_ad = None.                                         *)
MatchedAds(db, u, ad_data) ==
    IF CompatibleAds(db, u, ad_data) = {} THEN {0} ELSE CompatibleAds(db, u, ad_data)

(* Mutant of AutoMatch: a trade for the smaller amount whatever the two   *)
(* amounts are                                                             *)
AutoMatchTradesPartially(db, new, matched) ==
    create_auto_trade(db, new, matched,
                      Min(db.ads[new].available_amount, db.ads[matched].available_amount))

AutoMatch(db, new, matched) ==
    LET new_ad == db.ads[new]
        matched_ad == db.ads[matched]
        match_amount == Min(new_ad.available_amount, matched_ad.available_amount)
    IN IF /\ match_amount = new_ad.available_amount
          /\ match_amount = matched_ad.available_amount
       THEN [create_auto_trade(db, new, matched, match_amount)
                EXCEPT !.ads[new].is_active = FALSE, !.ads[matched].is_active = FALSE]
       ELSE IF \/ match_amount < new_ad.available_amount
               \/ match_amount < matched_ad.available_amount
       THEN LET larger_ad == IF new_ad.available_amount > matched_ad.available_amount
                             THEN new_ad ELSE matched_ad
            IN Notify(db, larger_ad.user_id, "PARTIAL_MATCH")
       ELSE db

create_advertisement(db, u, ad_data, now, matched) ==
    IF CreateAdStatus(db, u, ad_data) # "201" THEN db
    ELSE LET d1 == [db EXCEPT !.ads = Append(@, NewAd(db, u, ad_data, now))]
         IN IF matched = 0 THEN d1 ELSE AutoMatch(d1, Len(d1.ads), matched)

----------------------------------------------------------------------------
(* initiate_trade *)

CryptoAmount(fiat_amount, price) == fiat_amount \div price

InitiateSeller(ad, u) == IF ad.ad_type = "SELL" THEN ad.user_id ELSE u

InitiateBuyer(ad, u) == IF ad.ad_type = "SELL" THEN u ELSE ad.user_id

InitiateStatus(db, u, trade_data) ==
    LET id == trade_data.advertisement_id IN
    IF id \notin DOMAIN db.ads \/ ~db.ads[id].is_active THEN "404"
    ELSE LET ad == db.ads[id]
             crypto_amount == CryptoAmount(trade_data.amount, ad.price)
         IN IF ad.user_id = u THEN "400"
            ELSE IF trade_data.amount < ad.min_limit \/ trade_data.amount > ad.max_limit
                THEN "400"
            ELSE IF crypto_amount > ad.available_amount THEN "400"
            ELSE IF \/ ~HasWallet(db, InitiateSeller(ad, u), ad.currency)
                    \/ db.wallets[<<InitiateSeller(ad, u), ad.currency>>].available_balance
                          < crypto_amount
                THEN "400"
            ELSE "201"

InitiateSession(db, u, trade_data) ==
    LET ad == db.ads[trade_data.advertisement_id]
        crypto_amount == CryptoAmount(trade_data.amount, ad.price)
        seller_id == InitiateSeller(ad, u)
        escrow == NewEscrow(db, crypto_amount, ad.currency)
        d1 == [db EXCEPT !.escrows = Append(@, escrow),
                         !.wallets[<<seller_id, ad.currency>>] = Lock(@, crypto_amount)]
        d2 == [d1 EXCEPT !.p2p_trades =
                  Append(@, NewP2PTrade(d1, ad, InitiateBuyer(ad, u), seller_id,
                                        crypto_amount, trade_data.amount, escrow.id))]
        d3 == [d2 EXCEPT !.ads[ad.id].available_amount = @ - crypto_amount]
    IN [d3 EXCEPT !.ads[ad.id].is_active =
            IF d3.ads[ad.id].available_amount <= 0 THEN FALSE ELSE @]

(* Mutant of initiate_trade: the escrow written before a refusal stays *)
InitiateTradeKeepsEscrow(db, u, trade_data) ==
    IF InitiateStatus(db, u, trade_data) = "201"
    THEN InitiateSession(db, u, trade_data)
    ELSE IF InitiateStatus(db, u, trade_data) = "400"
    THEN LET ad == db.ads[trade_data.advertisement_id]
         IN [db EXCEPT !.escrows =
                Append(@, NewEscrow(db, CryptoAmount(trade_data.amount, ad.price),
                                    ad.currency))]
    ELSE db

initiate_trade(db, u, trade_data) ==
    IF InitiateStatus(db, u, trade_data) = "201"
    THEN InitiateSession(db, u, trade_data)
    ELSE db

----------------------------------------------------------------------------
(* mark_payment_sent, confirm_payment, cancel_trade *)

MarkSentStatus(db, u, trade_id) ==
    IF trade_id \notin DOMAIN db.p2p_trades \/ db.p2p_trades[trade_id].buyer_id # u
    THEN "404"
    ELSE IF db.p2p_trades[trade_id].status # "PENDING" THEN "400"
    ELSE "200"

mark_payment_sent(db, u, trade_id) ==
    IF MarkSentStatus(db, u, trade_id) = "200"
    THEN [db EXCEPT !.p2p_trades[trade_id].status = "PAYMENT_SENT"]
    ELSE db

ConfirmStatus(db, u, trade_id) ==
    IF trade_id \notin DOMAIN db.p2p_trades \/ db.p2p_trades[trade_id].seller_id # u
    THEN "404"
    ELSE IF db.p2p_trades[trade_id].status # "PAYMENT_SENT" THEN "400"
    ELSE "200"

(* wallet.available_balance += amount, or a new wallet row holding amount *)
CreditOrCreate(db, u, c, amount) ==
    IF HasWallet(db, u, c)
    THEN [db EXCEPT !.wallets[<<u, c>>] = Credit(@, amount)]
    ELSE [db EXCEPT !.wallets =
            @ @@ (<<u, c>> :> [available_balance |-> amount, locked_balance |-> 0])]

AddTx(db, present, u, c, type, amount) ==
    IF present THEN [db EXCEPT !.transactions = Append(@, Tx(u, c, type, amount))]
    ELSE db

ConfirmSession(db, trade_id) ==
    LET trade == db.p2p_trades[trade_id]
        s == trade.seller_id
        b == trade.buyer_id
        had_seller_wallet == HasWallet(db, s, trade.currency)
        had_buyer_fiat == HasWallet(db, b, trade.fiat_currency)
        d1 == IF trade.escrow_id \in DOMAIN db.escrows
              THEN [db EXCEPT !.escrows[trade.escrow_id].status = "RELEASED"]
              ELSE db
        d2 == IF had_seller_wallet
              THEN [d1 EXCEPT !.wallets[<<s, trade.currency>>] =
                                    DebitLocked(@, trade.amount)]
              ELSE d1
        d3 == CreditOrCreate(d2, b, trade.currency, trade.amount)
        d4 == IF had_buyer_fiat
              THEN [d3 EXCEPT !.wallets[<<b, trade.fiat_currency>>] =
                                    Credit(@, -trade.total_fiat)]
              ELSE d3
        d5 == CreditOrCreate(d4, s, trade.fiat_currency, trade.total_fiat)
        t1 == AddTx(d5, TRUE, b, trade.currency, "P2P_BUY", trade.amount)
        t2 == AddTx(t1, had_buyer_fiat, b, trade.fiat_currency, "P2P_BUY",
                    -trade.total_fiat)
        t3 == AddTx(t2, had_seller_wallet, s, trade.currency, "P2P_SELL", -trade.amount)
        t4 == AddTx(t3, TRUE, s, trade.fiat_currency, "P2P_SELL", trade.total_fiat)
    IN [t4 EXCEPT !.p2p_trades[trade_id].status = "COMPLETED"]

confirm_payment(db, u, trade_id) ==
    IF ConfirmStatus(db, u, trade_id) = "200" THEN ConfirmSession(db, trade_id) ELSE db

CancelTradeStatus(db, u, trade_id) ==
    IF \/ trade_id \notin DOMAIN db.p2p_trades
       \/ u \notin {db.p2p_trades[trade_id].buyer_id, db.p2p_trades[trade_id].seller_id}
    THEN "404"
    ELSE IF db.p2p_trades[trade_id].status \notin {"PENDING", "PAYMENT_SENT"} THEN "400"
    ELSE "200"

UnlockSeller(db, trade) ==
    IF HasWallet(db, trade.seller_id, trade.currency)
    THEN [db EXCEPT !.wallets[<<trade.seller_id, trade.currency>>] =
                        Unlock(@, trade.amount)]
    ELSE db

CancelTradeSession(db, trade_id) ==
    LET trade == db.p2p_trades[trade_id]
        d1 == IF trade.escrow_id \in DOMAIN db.escrows
              THEN [db EXCEPT !.escrows[trade.escrow_id].status = "REFUNDED"]
              ELSE db
        d2 == UnlockSeller(d1, trade)
        d3 == IF trade.advertisement_id \in DOMAIN d2.ads
              THEN [d2 EXCEPT !.ads[trade.advertisement_id].available_amount =
                                    @ + trade.amount]
              ELSE d2
        d4 == IF /\ trade.advertisement_id \in DOMAIN d3.ads
                 /\ d3.ads[trade.advertisement_id].available_amount > 0
              THEN [d3 EXCEPT !.ads[trade.advertisement_id].is_active = TRUE]
              ELSE d3
    IN [d4 EXCEPT !.p2p_trades[trade_id].status = "CANCELLED"]

cancel_trade(db, u, trade_id) ==
    IF CancelTradeStatus(db, u, trade_id) = "200"
    THEN CancelTradeSession(db, trade_id)
    ELSE db

----------------------------------------------------------------------------
(* accept_partial_match *)

AcceptStatus(db, u, ad_id, match_ad_id, amount) ==
    IF \/ ad_id \notin DOMAIN db.ads
       \/ db.ads[ad_id].user_id # u
       \/ match_ad_id \notin DOMAIN db.ads
    THEN "404"
    ELSE IF \/ amount > db.ads[ad_id].available_amount
            \/ amount > db.ads[match_ad_id].available_amount
    THEN "400"
    ELSE "200"

Deactivate(db, ad_id) ==
    IF db.ads[ad_id].available_amount <= 0
    THEN [db EXCEPT !.ads[ad_id].is_active = FALSE]
    ELSE db

accept_partial_match(db, u, ad_id, match_ad_id, amount) ==
    IF AcceptStatus(db, u, ad_id, match_ad_id, amount) = "200"
    THEN Deactivate(Deactivate(create_auto_trade(db, ad_id, match_ad_id, amount),
                               ad_id), match_ad_id)
    ELSE db

----------------------------------------------------------------------------
(* AdExpirationService._check_and_expire_ads *)

Expired(ad, now) == ad.is_active /\ now > ad.created_at + ad.payment_time_limit

ExpireTradeReactivates(db, trade_id) ==
    LET trade == db.p2p_trades[trade_id]
        refund == /\ trade.escrow_id \in DOMAIN db.escrows
                  /\ db.escrows[trade.escrow_id].status = "LOCKED"
        d1 == IF refund
              THEN UnlockSeller([db EXCEPT !.escrows[trade.escrow_id].status = "REFUNDED"],
                                trade)
              ELSE db
        d2 == [d1 EXCEPT !.ads[trade.advertisement_id].available_amount = @ + trade.amount,
                         !.ads[trade.advertisement_id].is_active = TRUE,
                         !.p2p_trades[trade_id].status = "CANCELLED"]
    IN Notify(Notify(d2, trade.buyer_id, "TRADE_CANCELLED"), trade.seller_id,
              "TRADE_CANCELLED")

ExpireTrade(db, trade_id) ==
    LET trade == db.p2p_trades[trade_id]
        refund == /\ trade.escrow_id \in DOMAIN db.escrows
                  /\ db.escrows[trade.escrow_id].status = "LOCKED"
        d1 == IF refund
              THEN UnlockSeller([db EXCEPT !.escrows[trade.escrow_id].status = "REFUNDED"],
                                trade)
              ELSE db
        d2 == [d1 EXCEPT !.ads[trade.advertisement_id].available_amount = @ + trade.amount,
                         !.p2p_trades[trade_id].status = "CANCELLED"]
    IN Notify(Notify(d2, trade.buyer_id, "TRADE_CANCELLED"), trade.seller_id,
              "TRADE_CANCELLED")

RECURSIVE ExpireTrades(_, _, _)
ExpireTrades(db, ad_id, trade_id) ==
    IF trade_id > Len(db.p2p_trades) THEN db
    ELSE IF /\ db.p2p_trades[trade_id].advertisement_id = ad_id
            /\ db.p2p_trades[trade_id].status \in {"PENDING", "PAYMENT_SENT"}
    THEN ExpireTrades(ExpireTrade(db, trade_id), ad_id, trade_id + 1)
    ELSE ExpireTrades(db, ad_id, trade_id + 1)

RECURSIVE ExpireAds(_, _, _)
ExpireAds(db, now, ad_id) ==
    IF ad_id > Len(db.ads) THEN db
    ELSE IF Expired(db.ads[ad_id], now)
    THEN ExpireAds(ExpireTrades([db EXCEPT !.ads[ad_id].is_active = FALSE], ad_id, 1),
                   now, ad_id + 1)
    ELSE ExpireAds(db, now, ad_id + 1)

check_and_expire_ads(db, now) == ExpireAds(db, now, 1)

----------------------------------------------------------------------------
(* get_order_book *)

(* The WHERE clause of the two queries: open rows of the instrument and   *)
(* side that have a price                                                  *)
BookRows(db, instrument, side) ==
    {i \in DOMAIN db.orders :
        /\ db.orders[i].instrument = instrument
        /\ db.orders[i].order_type = side
        /\ db.orders[i].status \in OpenStatuses
        /\ db.orders[i].price # None}

(* ORDER BY price DESC, created_at for the bids and ORDER BY price,       *)
(* created_at for the asks: row a sorts strictly before row b             *)
BookSortsBefore(side, a, b) ==
    \/ IF side = "BUY" THEN Val(a.price) > Val(b.price)
                       ELSE Val(a.price) < Val(b.price)
    \/ a.price = b.price /\ a.created_at < b.created_at

(* .limit(depth): the first depth rows of the sorted result *)
BookQuery(db, instrument, side, depth) ==
    LET rows == BookRows(db, instrument, side)
    IN {i \in rows :
          Cardinality({j \in rows :
              BookSortsBefore(side, db.orders[j], db.orders[i])}) < depth}

RECURSIVE SumRemaining(_, _)
SumRemaining(db, S) ==
    IF S = {} THEN 0
    ELSE LET i == CHOOSE x \in S : TRUE
         IN db.orders[i].remaining_quantity + SumRemaining(db, S \ {i})

(* The dictionary built by the aggregation loop, one entry per price *)
Aggregate(db, S) ==
    {[price |-> p,
      quantity |-> SumRemaining(db, {i \in S : Val(db.orders[i].price) = p}),
      count |-> Cardinality({i \in S : Val(db.orders[i].price) = p})] :
        p \in {Val(db.orders[i].price) : i \in S}}

(* sorted(levels, key=price), reversed for the bids *)
RECURSIVE SortedLevels(_, _)
SortedLevels(levels, side) ==
    IF levels = {} THEN <<>>
    ELSE LET first == CHOOSE l \in levels :
                 \A m \in levels : IF side = "BUY" THEN l.price >= m.price
                                                   ELSE l.price <= m.price
         IN <<first>> \o SortedLevels(levels \ {first}, side)

(* The most recent Trade of the instrument; rows carry distinct           *)
(* timestamps, so it is the last one inserted                              *)
LastPrice(db, instrument) ==
    LET T == {t \in DOMAIN db.trades : db.trades[t].instrument = instrument}
    IN IF T = {} THEN None
       ELSE Some(db.trades[CHOOSE t \in T : \A x \in T : x <= t].price)

get_order_book(db, instrument, depth) ==
    [instrument |-> instrument,
     bids |-> SortedLevels(Aggregate(db, BookQuery(db, instrument, "BUY", depth)), "BUY"),
     asks |-> SortedLevels(Aggregate(db, BookQuery(db, instrument, "SELL", depth)), "SELL"),
     last_price |-> LastPrice(db, instrument)]

----------------------------------------------------------------------------
(* The state machine *)

PricedShapes ==
    [instrument : {"BTC/USD"}, order_type : {"BUY", "SELL"}, order_subtype : {"LIMIT"},
     price : {Some(p) : p \in 1..MaxPrice}, quantity : {k * Lot : k \in 1..MaxLots}]

UnpricedShapes ==
    [instrument : {"BTC/USD"}, order_type : {"BUY", "SELL"}, order_subtype : {"MARKET"},
     price : {None}, quantity : {k * Lot : k \in 1..MaxLots}]

PricedMarketShapes ==
    [instrument : {"BTC/USD"}, order_type : {"BUY", "SELL"}, order_subtype : {"MARKET"},
     price : {Some(1)}, quantity : {Lot}]

(* One request for each way of being refused *)
RefusedShapes ==
    LET d == [instrument |-> "BTC/USD", order_type |-> "BUY", order_subtype |-> "LIMIT",
              price |-> Some(1), quantity |-> Lot]
    IN {[d EXCEPT !.price = None], [d EXCEPT !.price = Some(0)],
        [d EXCEPT !.quantity = 0], [d EXCEPT !.instrument = "BTCUSD"],
        [d EXCEPT !.order_type = "HOLD"],
        [d EXCEPT !.order_type = "HOLD", !.instrument = "BTCUSD"]}

OrderData == PricedShapes \cup UnpricedShapes \cup PricedMarketShapes \cup RefusedShapes

Idle == [at |-> "idle", order |-> 0]

(* The requests that run at the same time, each with its own Session, and *)
(* a Session that holds no rows                                           *)
Sessions == {"s1", "s2"}

IdleSession == [at |-> "idle", order |-> 0, matching_orders |-> <<>>,
                orders |-> <<>>, wallets |-> <<>>]

InitWallets ==
    [k \in {<<u, "USD">> : u \in Users} \cup {<<u, "BTC">> : u \in UsersWithBase} |->
        [available_balance |-> IF k[2] = "USD" THEN InitQuoteLots * Lot
                                ELSE InitBaseLots * Lot,
         locked_balance |-> 0]]

Init ==
    /\ wallets = InitWallets
    /\ orders = <<>>
    /\ trades = <<>>
    /\ transactions = <<>>
    /\ ads = <<>>
    /\ p2p_trades = <<>>
    /\ escrows = <<>>
    /\ notifications = <<>>
    /\ disputes = <<>>
    /\ clock = 0
    /\ pc = Idle
    /\ sessions = [s \in Sessions |-> IdleSession]
    /\ last = [op |-> "none", status |-> "200"]

SetDB(db) ==
    /\ wallets' = db.wallets
    /\ orders' = db.orders
    /\ trades' = db.trades
    /\ transactions' = db.transactions
    /\ ads' = db.ads
    /\ p2p_trades' = db.p2p_trades
    /\ escrows' = db.escrows
    /\ notifications' = db.notifications
    /\ disputes' = db.disputes

(* create_order up to db.commit(): validation, lock, insert *)
CreateOrder(u, data) ==
    /\ pc.at = "idle"
    /\ Len(orders) < MaxOrders
    /\ LET status == CreateOrderStatus(DB, u, data)
           now == clock + 1
       IN /\ SetDB(CreateOrderCommitted(DB, u, data, now))
          /\ clock' = IF status = "201" THEN now ELSE clock
          /\ pc' = IF status = "201"
                   THEN [at |-> "match", order |-> Len(orders) + 1]
                   ELSE Idle
          /\ last' = [op |-> "create_order", status |-> status]
    /\ UNCHANGED sessions

(* create_order from match_order(new_order.id, db) to its return *)
MatchOrder ==
    /\ pc.at = "match"
    /\ \E matching_orders \in QueryResults(DB, pc.order) :
          SetDB(match_order(DB, pc.order, matching_orders))
    /\ pc' = Idle
    /\ UNCHANGED <<clock, last, sessions>>

CancelOrder(u, order_id) ==
    /\ pc.at = "idle"
    /\ SetDB(CancelOrderCommitted(DB, u, order_id))
    /\ last' = [op |-> "cancel_order", status |-> CancelStatus(DB, u, order_id)]
    /\ UNCHANGED <<clock, pc, sessions>>

Next ==
    \/ \E u \in Users, data \in OrderData : CreateOrder(u, data)
    \/ MatchOrder
    \/ \E u \in Users, order_id \in 1..MaxOrders : CancelOrder(u, order_id)

Spec == Init /\ [][Next]_vars

----------------------------------------------------------------------------
(* create_order requests that run at the same time.  Each request has its *)
(* own Session: the rows it works on are the copies it loaded, an         *)
(* attribute it assigned is written by the UPDATE of its next commit, and *)
(* commit expires every copy, so the next iteration loads the rows again. *)
(* No query uses with_for_update and no row carries a version.            *)

(* The tables as the Session sees them: its copies of the order and       *)
(* wallet rows, and the tables it only inserts into                       *)
SessionDB(db, session) ==
    [db EXCEPT !.orders = session.orders, !.wallets = session.wallets]

(* UPDATE orderbook_orders SET the attributes the Session changed *)
WriteOrder(row, loaded, changed) ==
    [row EXCEPT !.remaining_quantity =
                    IF changed.remaining_quantity # loaded.remaining_quantity
                    THEN changed.remaining_quantity ELSE @,
                !.status = IF changed.status # loaded.status THEN changed.status ELSE @]

(* UPDATE wallets SET the attributes the Session changed *)
WriteWallet(row, loaded, changed) ==
    [row EXCEPT !.available_balance =
                    IF changed.available_balance # loaded.available_balance
                    THEN changed.available_balance ELSE @,
                !.locked_balance =
                    IF changed.locked_balance # loaded.locked_balance
                    THEN changed.locked_balance ELSE @]

(* One iteration of the loop of match_order in a Session, up to and with  *)
(* its db.commit(): computed on the copies, written to the tables         *)
CommitIteration(db, session) ==
    LET oid == session.order
        mid == Head(session.matching_orders)
        after == ExecuteMatch(SessionDB(db, session), oid, mid)
    IN [db EXCEPT !.orders[oid] = WriteOrder(@, session.orders[oid], after.orders[oid]),
                  !.orders[mid] = WriteOrder(@, session.orders[mid], after.orders[mid]),
                  !.wallets = [k \in DOMAIN db.wallets |->
                                 WriteWallet(db.wallets[k], session.wallets[k],
                                             after.wallets[k])],
                  !.trades = after.trades,
                  !.transactions = after.transactions]

(* The loop ends without a commit: the order is used up, or the          *)
(* candidate has no price and trade_quantity * trade_price raises, or the *)
(* candidate has nothing left and amount / quantity raises in the         *)
(* settlement of the buyer's quote wallet                                  *)
LoopEnds(session) ==
    \/ session.orders[session.order].remaining_quantity <= 0
    \/ TradePrice(session.orders[session.order],
                  session.orders[Head(session.matching_orders)]) = None
    \/ TradeQuantity(session.orders[session.order],
                     session.orders[Head(session.matching_orders)]) = 0

(* create_order in Session s up to its first db.commit() *)
BeginOrder(s, u, data) ==
    /\ sessions[s].at = "idle"
    /\ Len(orders) < MaxOrders
    /\ LET status == CreateOrderStatus(DB, u, data)
           now == clock + 1
       IN /\ SetDB(CreateOrderCommitted(DB, u, data, now))
          /\ clock' = IF status = "201" THEN now ELSE clock
          /\ sessions' = [sessions EXCEPT ![s] =
                            IF status = "201"
                            THEN [IdleSession EXCEPT !.at = "query",
                                                     !.order = Len(orders) + 1]
                            ELSE IdleSession]
          /\ last' = [op |-> "create_order", status |-> status]
    /\ UNCHANGED pc

(* match_order in Session s: the order and the candidates are loaded *)
QueryCandidates(s) ==
    /\ sessions[s].at = "query"
    /\ \E matching_orders \in QueryResults(DB, sessions[s].order) :
          sessions' = [sessions EXCEPT ![s] =
                          IF \/ orders[sessions[s].order].remaining_quantity <= 0
                             \/ matching_orders = <<>>
                          THEN IdleSession
                          ELSE [@ EXCEPT !.at = "commit",
                                         !.matching_orders = matching_orders,
                                         !.orders = orders,
                                         !.wallets = wallets]]
    /\ UNCHANGED <<wallets, orders, trades, transactions, ads, p2p_trades, escrows,
                   notifications, disputes, clock, pc, last>>

(* match_order in Session s: one iteration and its commit *)
CommitTrade(s) ==
    /\ sessions[s].at = "commit"
    /\ IF LoopEnds(sessions[s])
       THEN /\ sessions' = [sessions EXCEPT ![s] = IdleSession]
            /\ UNCHANGED <<wallets, orders, trades, transactions, ads, p2p_trades,
                           escrows, notifications, disputes>>
       ELSE /\ SetDB(CommitIteration(DB, sessions[s]))
            /\ sessions' = [sessions EXCEPT ![s] =
                              IF Tail(@.matching_orders) = <<>> THEN IdleSession
                              ELSE [@ EXCEPT !.at = "reload",
                                             !.matching_orders = Tail(@),
                                             !.orders = <<>>,
                                             !.wallets = <<>>]]
    /\ UNCHANGED <<clock, pc, last>>

(* match_order in Session s: the expired rows are loaded again *)
ReloadRows(s) ==
    /\ sessions[s].at = "reload"
    /\ sessions' = [sessions EXCEPT ![s] = [@ EXCEPT !.at = "commit",
                                                     !.orders = orders,
                                                     !.wallets = wallets]]
    /\ UNCHANGED <<wallets, orders, trades, transactions, ads, p2p_trades, escrows,
                   notifications, disputes, clock, pc, last>>

NextConcurrent ==
    \/ \E s \in Sessions, u \in Users, data \in PricedShapes : BeginOrder(s, u, data)
    \/ \E s \in Sessions : QueryCandidates(s)
    \/ \E s \in Sessions : CommitTrade(s)
    \/ \E s \in Sessions : ReloadRows(s)

SpecConcurrent == Init /\ [][NextConcurrent]_vars



----------------------------------------------------------------------------
(* The P2P marketplace as a state machine *)

PaymentTimeLimit == 1

(* What last keeps of a P2P call: the operation when it was served, only  *)
(* the status when it was refused                                          *)
Served(op, status) ==
    IF status \in {"200", "201"} THEN [op |-> op, status |-> status]
    ELSE [op |-> "refused", status |-> status]

(* One request for each way two advertisements can meet: equal amounts and *)
(* a common payment method, different amounts, no common payment method    *)
AdShapes ==
    LET d == [ad_type |-> "SELL", currency |-> "BTC", fiat_currency |-> "USD",
              price |-> 1, min_limit |-> Lot, max_limit |-> MaxLots * Lot,
              available_amount |-> MaxLots * Lot, payment_methods |-> {"Bank"},
              payment_time_limit |-> PaymentTimeLimit]
    IN {d, [d EXCEPT !.ad_type = "BUY"],
        [d EXCEPT !.ad_type = "BUY", !.available_amount = Lot],
        [d EXCEPT !.ad_type = "BUY", !.available_amount = Lot,
                  !.payment_methods = {"PayPal"}]}

FiatAmounts == {Lot, 2 * Lot, 3 * Lot}
PartialAmounts == {-Lot, Lot}

CreateAdvertisement(u, ad_data) ==
    /\ Len(ads) < MaxAds
    /\ \E matched \in MatchedAds(DB, u, ad_data) :
          SetDB(create_advertisement(DB, u, ad_data, clock, matched))
    /\ last' = Served("create_advertisement", CreateAdStatus(DB, u, ad_data))
    /\ UNCHANGED <<clock, pc, sessions>>

InitiateTrade(u, trade_data) ==
    /\ Len(p2p_trades) < MaxP2PTrades
    /\ SetDB(initiate_trade(DB, u, trade_data))
    /\ last' = Served("initiate_trade", InitiateStatus(DB, u, trade_data))
    /\ UNCHANGED <<clock, pc, sessions>>

AcceptPartialMatch(u, ad_id, match_ad_id, amount) ==
    /\ Len(p2p_trades) < MaxP2PTrades
    /\ SetDB(accept_partial_match(DB, u, ad_id, match_ad_id, amount))
    /\ last' = Served("accept_partial_match", AcceptStatus(DB, u, ad_id, match_ad_id, amount))
    /\ UNCHANGED <<clock, pc, sessions>>

MarkPaymentSent(u, trade_id) ==
    /\ SetDB(mark_payment_sent(DB, u, trade_id))
    /\ last' = Served("mark_payment_sent", MarkSentStatus(DB, u, trade_id))
    /\ UNCHANGED <<clock, pc, sessions>>

ConfirmPayment(u, trade_id) ==
    /\ SetDB(confirm_payment(DB, u, trade_id))
    /\ last' = Served("confirm_payment", ConfirmStatus(DB, u, trade_id))
    /\ UNCHANGED <<clock, pc, sessions>>

CancelTrade(u, trade_id) ==
    /\ SetDB(cancel_trade(DB, u, trade_id))
    /\ last' = Served("cancel_trade", CancelTradeStatus(DB, u, trade_id))
    /\ UNCHANGED <<clock, pc, sessions>>

Sweep ==
    /\ SetDB(check_and_expire_ads(DB, clock))
    /\ last' = [op |-> "sweep", status |-> "200"]
    /\ UNCHANGED <<clock, pc, sessions>>

Tick ==
    /\ clock < MaxClock
    /\ clock' = clock + 1
    /\ UNCHANGED <<wallets, orders, trades, transactions, ads, p2p_trades, escrows,
                   notifications, disputes, pc, sessions, last>>

NextP2P ==
    \/ \E u \in Users, ad_data \in AdShapes : CreateAdvertisement(u, ad_data)
    \/ \E u \in Users, id \in 1..MaxAds, fiat \in FiatAmounts :
          InitiateTrade(u, [advertisement_id |-> id, amount |-> fiat])
    \/ \E u \in Users, id \in 1..MaxAds, mid \in 1..MaxAds, amount \in PartialAmounts :
          AcceptPartialMatch(u, id, mid, amount)
    \/ \E u \in Users, id \in 1..MaxP2PTrades : MarkPaymentSent(u, id)
    \/ \E u \in Users, id \in 1..MaxP2PTrades : ConfirmPayment(u, id)
    \/ \E u \in Users, id \in 1..MaxP2PTrades : CancelTrade(u, id)
    \/ Sweep
    \/ Tick

SpecP2P == Init /\ [][NextP2P]_vars

----------------------------------------------------------------------------
(* Disputes on P2P trades: routers/dispute.py and the admin router's       *)
(* resolution endpoint. A dispute row keeps the columns the handlers       *)
(* branch on; reason, evidence, resolution and the timestamps are text     *)
(* that no handler reads back. Requests carry no evidence list.            *)

MaxDisputes == 1

Admins == {"admin"}
Principals == Users \cup Admins

is_admin(u) == u \in Admins

DisputeStatusValues == {"OPEN", "IN_REVIEW", "UNDER_REVIEW", "RESOLVED", "REJECTED"}

HasDisputeId(db, dispute_id) ==
    \E i \in DOMAIN db.disputes : db.disputes[i].id = dispute_id

DisputeIndex(db, dispute_id) ==
    CHOOSE i \in DOMAIN db.disputes : db.disputes[i].id = dispute_id

DisputeOf(db, dispute_id) == db.disputes[DisputeIndex(db, dispute_id)]

HasDispute(db, trade_id) ==
    \E i \in DOMAIN db.disputes : db.disputes[i].trade_id = trade_id

(* The integer primary key of a new row under the configured SQLite       *)
(* database: one more than the largest one in the table                    *)
NewDisputeId(db) ==
    IF db.disputes = <<>> THEN 1 ELSE db.disputes[Len(db.disputes)].id + 1

IsParty(db, u, trade_id) ==
    u \in {db.p2p_trades[trade_id].buyer_id, db.p2p_trades[trade_id].seller_id}

CreateDisputeStatusIgnoresExisting(db, u, trade_id) ==
    IF trade_id \notin DOMAIN db.p2p_trades THEN "404"
    ELSE IF ~IsParty(db, u, trade_id) THEN "403"
    ELSE IF db.p2p_trades[trade_id].status \in {"COMPLETED", "CANCELLED"} THEN "400"
    ELSE "201"

CreateDisputeStatus(db, u, trade_id) ==
    IF trade_id \notin DOMAIN db.p2p_trades THEN "404"
    ELSE IF ~IsParty(db, u, trade_id) THEN "403"
    ELSE IF db.p2p_trades[trade_id].status \in {"COMPLETED", "CANCELLED"} THEN "400"
    ELSE IF HasDispute(db, trade_id) THEN "400"
    ELSE "201"

NewDispute(db, u, trade_id) ==
    [id |-> NewDisputeId(db), trade_id |-> trade_id, filed_by |-> u,
     status |-> "OPEN", resolved_by |-> None]

create_dispute(db, u, trade_id) ==
    IF CreateDisputeStatus(db, u, trade_id) = "201"
    THEN [db EXCEPT !.disputes = Append(@, NewDispute(db, u, trade_id)),
                    !.p2p_trades[trade_id].status = "DISPUTED"]
    ELSE db

AddEvidenceStatus(db, u, dispute_id) ==
    IF ~HasDisputeId(db, dispute_id) THEN "404"
    ELSE IF \/ DisputeOf(db, dispute_id).trade_id \notin DOMAIN db.p2p_trades
            \/ ~IsParty(db, u, DisputeOf(db, dispute_id).trade_id)
    THEN "403"
    ELSE IF DisputeOf(db, dispute_id).status = "RESOLVED" THEN "400"
    ELSE "200"

add_evidence(db, u, dispute_id) ==
    IF /\ AddEvidenceStatus(db, u, dispute_id) = "200"
       /\ DisputeOf(db, dispute_id).status = "OPEN"
    THEN [db EXCEPT !.disputes[DisputeIndex(db, dispute_id)].status = "IN_REVIEW"]
    ELSE db

(* str.upper() on the status texts in use *)
Upper(s) ==
    CASE s = "open" -> "OPEN"
      [] s = "rejected" -> "REJECTED"
      [] s = "Resolved" -> "RESOLVED"
      [] s = "reviewing" -> "REVIEWING"
      [] OTHER -> s

UpdateDisputeStatus(db, u, dispute_id, update_data) ==
    IF ~is_admin(u) THEN "403"
    ELSE IF ~HasDisputeId(db, dispute_id) THEN "404"
    ELSE IF update_data.status # "" /\ Upper(update_data.status) \notin DisputeStatusValues
    THEN "400"
    ELSE "200"

update_dispute(db, u, dispute_id, update_data) ==
    IF UpdateDisputeStatus(db, u, dispute_id, update_data) = "200" /\ update_data.status # ""
    THEN [db EXCEPT !.disputes[DisputeIndex(db, dispute_id)].status =
                        Upper(update_data.status)]
    ELSE db

ResolveStatus(db, u, dispute_id) ==
    IF ~is_admin(u) THEN "403"
    ELSE IF ~HasDisputeId(db, dispute_id) THEN "404"
    ELSE IF DisputeOf(db, dispute_id).status = "RESOLVED" THEN "400"
    ELSE IF DisputeOf(db, dispute_id).trade_id \notin DOMAIN db.p2p_trades THEN "404"
    ELSE "200"

(* The decision of a resolution on the trade and its escrow *)
Decide(db, trade_id, trade_status, escrow_status) ==
    LET trade == db.p2p_trades[trade_id]
        d1 == [db EXCEPT !.p2p_trades[trade_id].status = trade_status]
    IN IF trade.escrow_id \in DOMAIN db.escrows
       THEN [d1 EXCEPT !.escrows[trade.escrow_id].status = escrow_status]
       ELSE d1

ResolveSession(db, u, dispute_id, refund_to_buyer, release_to_seller) ==
    LET i == DisputeIndex(db, dispute_id)
        trade_id == db.disputes[i].trade_id
        d1 == IF refund_to_buyer THEN Decide(db, trade_id, "CANCELLED", "REFUNDED")
              ELSE IF release_to_seller THEN Decide(db, trade_id, "COMPLETED", "RELEASED")
              ELSE db
    IN [d1 EXCEPT !.disputes[i].status = "RESOLVED",
                  !.disputes[i].resolved_by = Some(u)]

resolve_dispute(db, u, dispute_id, resolution_data) ==
    IF ResolveStatus(db, u, dispute_id) = "200"
    THEN ResolveSession(db, u, dispute_id, resolution_data.refund_to_buyer,
                        resolution_data.release_to_seller)
    ELSE db

resolve_dispute_admin(db, u, dispute_id, resolution_data) ==
    IF ResolveStatus(db, u, dispute_id) = "200"
    THEN ResolveSession(db, u, dispute_id, resolution_data.refund_to_buyer,
                        resolution_data.release_to_seller)
    ELSE db

(* cancel_dispute reads trade.payment_confirmed, a column P2PTrade does    *)
(* not have, once it finds the trade DISPUTED: the AttributeError ends the *)
(* request before db.delete and db.commit                                  *)
CancelDisputeStatus(db, u, dispute_id) ==
    IF ~HasDisputeId(db, dispute_id) THEN "404"
    ELSE IF DisputeOf(db, dispute_id).filed_by # u /\ ~is_admin(u) THEN "403"
    ELSE IF DisputeOf(db, dispute_id).status # "OPEN" THEN "400"
    ELSE IF /\ DisputeOf(db, dispute_id).trade_id \in DOMAIN db.p2p_trades
            /\ db.p2p_trades[DisputeOf(db, dispute_id).trade_id].status = "DISPUTED"
    THEN "500"
    ELSE "200"

cancel_dispute(db, u, dispute_id) ==
    IF CancelDisputeStatus(db, u, dispute_id) = "200"
    THEN [db EXCEPT !.disputes = SelectSeq(@, LAMBDA d : d.id # dispute_id)]
    ELSE db

----------------------------------------------------------------------------
(* The P2P marketplace with disputes as a state machine *)

StatusUpdates == {"", "open", "rejected", "Resolved", "reviewing"}
Resolutions == [refund_to_buyer : BOOLEAN, release_to_seller : BOOLEAN]

CreateDispute(u, trade_id) ==
    /\ SetDB(create_dispute(DB, u, trade_id))
    /\ last' = Served("create_dispute", CreateDisputeStatus(DB, u, trade_id))
    /\ UNCHANGED <<clock, pc, sessions>>

AddEvidence(u, dispute_id) ==
    /\ SetDB(add_evidence(DB, u, dispute_id))
    /\ last' = Served("add_evidence", AddEvidenceStatus(DB, u, dispute_id))
    /\ UNCHANGED <<clock, pc, sessions>>

UpdateDispute(u, dispute_id, update_data) ==
    /\ SetDB(update_dispute(DB, u, dispute_id, update_data))
    /\ last' = Served("update_dispute", UpdateDisputeStatus(DB, u, dispute_id, update_data))
    /\ UNCHANGED <<clock, pc, sessions>>

ResolveDispute(u, dispute_id, resolution_data) ==
    /\ SetDB(resolve_dispute(DB, u, dispute_id, resolution_data))
    /\ last' = Served("resolve_dispute", ResolveStatus(DB, u, dispute_id))
    /\ UNCHANGED <<clock, pc, sessions>>

ResolveDisputeAdmin(u, dispute_id, resolution_data) ==
    /\ SetDB(resolve_dispute_admin(DB, u, dispute_id, resolution_data))
    /\ last' = Served("resolve_dispute_admin", ResolveStatus(DB, u, dispute_id))
    /\ UNCHANGED <<clock, pc, sessions>>

CancelDispute(u, dispute_id) ==
    /\ SetDB(cancel_dispute(DB, u, dispute_id))
    /\ last' = Served("cancel_dispute", CancelDisputeStatus(DB, u, dispute_id))
    /\ UNCHANGED <<clock, pc, sessions>>

(* The traders, advertisements and amounts of the disputed marketplace *)
Traders == {"u1", "u2"}
TraderAdShapes == {ad_data \in AdShapes : ad_data.available_amount = MaxLots * Lot}
TraderFiatAmounts == {Lot}
TraderPartialAmounts == {Lot}

NextDispute ==
    \/ \E u \in Traders, ad_data \in TraderAdShapes : CreateAdvertisement(u, ad_data)
    \/ \E u \in Traders, id \in 1..MaxAds, fiat \in TraderFiatAmounts :
          InitiateTrade(u, [advertisement_id |-> id, amount |-> fiat])
    \/ \E u \in Traders, id \in 1..MaxAds, mid \in 1..MaxAds,
          amount \in TraderPartialAmounts : AcceptPartialMatch(u, id, mid, amount)
    \/ \E u \in Traders, id \in 1..MaxP2PTrades : MarkPaymentSent(u, id)
    \/ \E u \in Traders, id \in 1..MaxP2PTrades : ConfirmPayment(u, id)
    \/ \E u \in Traders, id \in 1..MaxP2PTrades : CancelTrade(u, id)
    \/ Sweep
    \/ Tick
    \/ \E u \in Principals, id \in 1..MaxP2PTrades : CreateDispute(u, id)
    \/ \E u \in Principals, id \in 1..MaxDisputes : AddEvidence(u, id)
    \/ \E u \in Principals, id \in 1..MaxDisputes, status \in StatusUpdates :
          UpdateDispute(u, id, [status |-> status])
    \/ \E u \in Principals, id \in 1..MaxDisputes, resolution_data \in Resolutions :
          ResolveDispute(u, id, resolution_data)
    \/ \E u \in Principals, id \in 1..MaxDisputes, resolution_data \in Resolutions :
          ResolveDisputeAdmin(u, id, resolution_data)
    \/ \E u \in Principals, id \in 1..MaxDisputes : CancelDispute(u, id)

SpecDispute == Init /\ [][NextDispute]_vars


----------------------------------------------------------------------------
(* Properties of the order book *)

RECURSIVE SumQuantity(_, _)
SumQuantity(ts, S) ==
    IF S = {} THEN 0
    ELSE LET t == CHOOSE x \in S : TRUE IN ts[t].quantity + SumQuantity(ts, S \ {t})

TradesOf(i) == {t \in DOMAIN trades : trades[t].order_id = i \/ trades[t].resting = i}

(* C1: after any sequence of create_order and cancel_order calls, every   *)
(* wallet has available_balance >= 0 and locked_balance >= 0.             *)
C1_BalancesNonNegative ==
    \A k \in DOMAIN wallets :
        wallets[k].available_balance >= 0 /\ wallets[k].locked_balance >= 0

(* C4: a BUY limit order that is FILLED, of a user who has no other       *)
(* order, leaves that user's quote-currency locked_balance at 0.          *)
C4_FilledBuyLeavesNothingLocked ==
    \A i \in DOMAIN orders :
        (/\ orders[i].order_type = "BUY"
         /\ orders[i].order_subtype = "LIMIT"
         /\ orders[i].status = "FILLED"
         /\ \A j \in DOMAIN orders : j # i => orders[j].user_id # orders[i].user_id)
        => wallets[<<orders[i].user_id, Split(orders[i].instrument)[2]>>].locked_balance = 0

(* The wallet and the amount a new order has to lock *)
C5_Wallet(o) ==
    <<o.user_id, IF o.order_type = "BUY" THEN Split(o.instrument)[2]
                 ELSE Split(o.instrument)[1]>>

C5_Amount(o) ==
    IF o.order_type = "SELL" THEN o.quantity
    ELSE IF o.price = None THEN 0
    ELSE o.quantity * Val(o.price)

(* C5: the step of create_order that admits an order moves, before any    *)
(* matching, quantity x price of quote currency (BUY; nothing when the    *)
(* order has no price) or quantity of base currency (SELL) from           *)
(* available_balance to locked_balance of the user's wallet, keeps the    *)
(* wallet's total and touches no other wallet.                             *)
C5_LockIsExact ==
    [][(pc.at = "idle" /\ pc'.at = "match") =>
        LET o == orders'[pc'.order]
            k == C5_Wallet(o)
        IN /\ orders' = Append(orders, o)
           /\ o.remaining_quantity = o.quantity /\ o.status = "PENDING"
           /\ wallets'[k].available_balance = wallets[k].available_balance - C5_Amount(o)
           /\ wallets'[k].locked_balance = wallets[k].locked_balance + C5_Amount(o)
           /\ wallets'[k].available_balance + wallets'[k].locked_balance
                = wallets[k].available_balance + wallets[k].locked_balance
           /\ \A k2 \in DOMAIN wallets : k2 # k => wallets'[k2] = wallets[k2]
           /\ trades' = trades /\ transactions' = transactions]_vars

(* A priced BUY order has just been admitted and its notional is locked *)
C5_Witness ==
    /\ pc.at = "match"
    /\ orders[pc.order].order_type = "BUY"
    /\ orders[pc.order].price = Some(MaxPrice)
    /\ wallets[<<orders[pc.order].user_id, "USD">>].locked_balance
         = orders[pc.order].quantity * MaxPrice
    /\ wallets[<<orders[pc.order].user_id, "USD">>].available_balance
         = InitQuoteLots * Lot - orders[pc.order].quantity * MaxPrice

(* C6: a create_order call that is refused creates no Order, Trade or     *)
(* Transaction row and changes no wallet.                                  *)
C6_RefusedLeavesNoTrace ==
    [][(last'.op = "create_order" /\ last'.status # "201") =>
        /\ orders' = orders
        /\ trades' = trades
        /\ transactions' = transactions
        /\ wallets' = wallets
        /\ pc' = pc]_vars

(* A call was refused while funds were locked for a resting order *)
C6_Witness ==
    /\ last.op = "create_order"
    /\ last.status \in {"400", "500"}
    /\ \E i \in DOMAIN orders : orders[i].status = "PENDING"
    /\ \E k \in DOMAIN wallets : wallets[k].locked_balance > 0

(* Priority among the resting orders an aggressor of the given side meets *)
C7_Better(side, a, b) ==
    \/ IF side = "BUY" THEN Val(a.price) < Val(b.price) ELSE Val(a.price) > Val(b.price)
    \/ a.price = b.price /\ a.created_at < b.created_at

C7_Eligible(aggressor, o) ==
    /\ o.id < aggressor.id
    /\ o.instrument = aggressor.instrument
    /\ o.order_type # aggressor.order_type
    /\ o.status # "CANCELLED"
    /\ o.price # None
    /\ aggressor.price # None =>
            IF aggressor.order_type = "BUY" THEN Val(o.price) <= Val(aggressor.price)
            ELSE Val(o.price) >= Val(aggressor.price)

C8_TradeAtRestingPrice ==
    \A t \in DOMAIN trades :
        LET a == orders[trades[t].order_id]
            r == orders[trades[t].resting]
            buy == IF a.order_type = "BUY" THEN a ELSE r
            sell == IF a.order_type = "BUY" THEN r ELSE a
        IN /\ r.price # None
           /\ trades[t].price = Val(r.price)
           /\ trades[t].total_amount = trades[t].price * trades[t].quantity
           /\ buy.order_type = "BUY" /\ sell.order_type = "SELL"
           /\ trades[t].buyer_id = buy.user_id
           /\ trades[t].seller_id = sell.user_id

(* A trade between two users whose aggressor bid more than the resting    *)
(* order asked                                                             *)
C8_Witness ==
    \E t \in DOMAIN trades :
        /\ orders[trades[t].order_id].price # None
        /\ orders[trades[t].order_id].price # orders[trades[t].resting].price
        /\ trades[t].buyer_id # trades[t].seller_id

(* C9: every order has 0 <= remaining_quantity <= quantity, and the       *)
(* trades made with it, as aggressor or as resting order, add up to at    *)
(* most its quantity.                                                      *)
C9_NoOverFill ==
    \A i \in DOMAIN orders :
        /\ 0 <= orders[i].remaining_quantity
        /\ orders[i].remaining_quantity <= orders[i].quantity
        /\ SumQuantity(trades, TradesOf(i)) <= orders[i].quantity

(* An order took part in two trades that use up its quantity *)
C9_Witness ==
    \E i \in DOMAIN orders :
        /\ Cardinality(TradesOf(i)) = 2
        /\ SumQuantity(trades, TradesOf(i)) = orders[i].quantity
        /\ orders[i].remaining_quantity = 0

(* C10: cancel_order by the owner of an order that is PENDING or          *)
(* PARTIALLY_FILLED sets it to CANCELLED, leaves remaining_quantity as it *)
(* is and moves remaining_quantity x price of quote currency (BUY) or     *)
(* remaining_quantity of base currency (SELL) from the owner's            *)
(* locked_balance to available_balance.                                    *)
C10_CancelUnlocksRemainder ==
    \A i \in DOMAIN orders :
        (pc.at = "idle" /\ orders[i].status \in OpenStatuses) =>
            LET o == orders[i]
                after == CancelOrderCommitted(DB, o.user_id, i)
                k == C5_Wallet(o)
            IN /\ after.orders[i].status = "CANCELLED"
               /\ after.orders[i].remaining_quantity = o.remaining_quantity
               /\ LET amount == IF o.order_type = "BUY"
                                THEN o.remaining_quantity * Val(o.price)
                                ELSE o.remaining_quantity
                  IN /\ after.wallets[k].locked_balance
                          = wallets[k].locked_balance - amount
                     /\ after.wallets[k].available_balance
                          = wallets[k].available_balance + amount

----------------------------------------------------------------------------
(* Properties of the P2P marketplace *)

Currencies == {"BTC", "USD"}

LockedBalance(u, c) ==
    IF <<u, c>> \in DOMAIN wallets THEN wallets[<<u, c>>].locked_balance ELSE 0

(* The P2P trades sold by u in currency c whose escrow is LOCKED *)
LockedEscrowTrades(u, c) ==
    {t \in DOMAIN p2p_trades :
        /\ p2p_trades[t].seller_id = u
        /\ p2p_trades[t].currency = c
        /\ escrows[p2p_trades[t].escrow_id].status = "LOCKED"}

RECURSIVE SumEscrows(_)
SumEscrows(S) ==
    IF S = {} THEN 0
    ELSE LET t == CHOOSE x \in S : TRUE
         IN escrows[p2p_trades[t].escrow_id].amount + SumEscrows(S \ {t})

(* C2: after any sequence of P2P operations every wallet, crypto or fiat, *)
(* has available_balance >= 0 and locked_balance >= 0.                    *)
C2_P2PBalancesNonNegative ==
    \A u \in Users, c \in Currencies :
        <<u, c>> \in DOMAIN wallets =>
            /\ wallets[<<u, c>>].available_balance >= 0
            /\ wallets[<<u, c>>].locked_balance >= 0

(* C3: for every user and currency, locked_balance is at least the sum of *)
(* the amounts of the LOCKED escrows of the P2P trades the user sells in. *)
C3_LockedEscrowsBacked ==
    \A u \in Users, c \in Currencies :
        LockedBalance(u, c) >= SumEscrows(LockedEscrowTrades(u, c))

----------------------------------------------------------------------------
(* Properties of settlement and of the audit trail *)

(* The four Transaction rows of a settled trade, in the order written *)
SettlementRows(t) ==
    LET base == Split(t.instrument)[1]
        quote == Split(t.instrument)[2]
    IN <<Tx(t.buyer_id, quote, "TRADE", -t.total_amount),
         Tx(t.buyer_id, base, "TRADE",
            t.quantity - ((t.quantity * t.fee) \div t.total_amount)),
         Tx(t.seller_id, base, "TRADE", -t.quantity),
         Tx(t.seller_id, quote, "TRADE", t.total_amount - t.fee)>>

(* C11: every recorded Trade comes with all four ledger mutations, each   *)
(* with its own Transaction row, also when a party has no wallet in the   *)
(* base or the quote currency.                                             *)
C11_SettlementComplete ==
    /\ Len(transactions) = 4 * Len(trades)
    /\ \A i \in DOMAIN trades :
          SubSeq(transactions, 4 * (i - 1) + 1, 4 * i) = SettlementRows(trades[i])

(* The wallets a step changes or creates *)
ChangedWallets ==
    {k \in DOMAIN wallets' : k \notin DOMAIN wallets \/ wallets'[k] # wallets[k]}

(* The Transaction rows a step appends *)
AppendedRows == {i \in DOMAIN transactions' : i > Len(transactions)}

(* C12: every operation that changes a wallet's available_balance or      *)
(* locked_balance appends a Transaction row for that wallet.               *)
C12_BalanceChangesAreLogged ==
    [][\A k \in ChangedWallets :
          \E i \in AppendedRows : transactions'[i].wallet = k]_vars

----------------------------------------------------------------------------
(* Properties of the order-book snapshot *)

(* The first depth entries of a sequence *)
FirstLevels(seq, depth) == SubSeq(seq, 1, Min(depth, Len(seq)))

(* Every price level of one side, aggregated over all its resting orders *)
AllLevels(instrument, side) ==
    SortedLevels(Aggregate(DB, BookRows(DB, instrument, side)), side)

(* C13: get_order_book returns for each side the best depth price levels, *)
(* each with the summed remaining_quantity and the number of all resting  *)
(* orders at that price, and last_price is the price of the most recent   *)
(* Trade or null.                                                          *)
C13_SnapshotAggregatesLevels ==
    \A depth \in 1..MaxDepth :
        LET book == get_order_book(DB, "BTC/USD", depth)
        IN /\ book.bids = FirstLevels(AllLevels("BTC/USD", "BUY"), depth)
           /\ book.asks = FirstLevels(AllLevels("BTC/USD", "SELL"), depth)
           /\ book.last_price = IF trades = <<>> THEN None
                                 ELSE Some(trades[Len(trades)].price)

----------------------------------------------------------------------------
(* Properties of create_advertisement *)

(* The seller of a trade between a new advertisement and a matched one *)
C14_Seller(u, ad_data, matched_ad) ==
    IF ad_data.ad_type = "SELL" THEN u ELSE matched_ad.user_id

(* C14: when create_advertisement selects a compatible advertisement with *)
(* the same available amount, it creates one P2PTrade PENDING for that    *)
(* amount with an Escrow LOCKED, moves the amount from the seller's       *)
(* available_balance to locked_balance and leaves both advertisements     *)
(* with available amount 0 and inactive.                                   *)
C14_PerfectMatchTrades ==
    \A u \in Users, ad_data \in AdShapes :
      \A matched \in MatchedAds(DB, u, ad_data) :
        (/\ CreateAdStatus(DB, u, ad_data) = "201"
         /\ matched # 0
         /\ ads[matched].available_amount = ad_data.available_amount) =>
            LET after == create_advertisement(DB, u, ad_data, clock, matched)
                amount == ad_data.available_amount
                seller == <<C14_Seller(u, ad_data, ads[matched]), ad_data.currency>>
                t == Len(p2p_trades) + 1
                n == Len(ads) + 1
            IN /\ Len(after.p2p_trades) = t
               /\ after.p2p_trades[t].status = "PENDING"
               /\ after.p2p_trades[t].amount = amount
               /\ Len(after.escrows) = Len(escrows) + 1
               /\ after.escrows[after.p2p_trades[t].escrow_id].status = "LOCKED"
               /\ after.escrows[after.p2p_trades[t].escrow_id].amount = amount
               /\ seller \in DOMAIN wallets
               /\ after.wallets[seller].available_balance
                     = wallets[seller].available_balance - amount
               /\ after.wallets[seller].locked_balance
                     = wallets[seller].locked_balance + amount
               /\ after.ads[n].available_amount = 0 /\ ~after.ads[n].is_active
               /\ after.ads[matched].available_amount = 0
               /\ ~after.ads[matched].is_active

(* C15: when create_advertisement finds no compatible advertisement, or   *)
(* selects one with a different available amount, it creates no P2PTrade  *)
(* and no Escrow and changes no wallet; the advertisements keep their     *)
(* amount and active flag; in the partial case one notification goes to   *)
(* the owner of the advertisement with the larger amount.                  *)
C15_NoPerfectMatchOnlyAdvertises ==
    \A u \in Users, ad_data \in AdShapes :
      \A matched \in MatchedAds(DB, u, ad_data) :
        (/\ CreateAdStatus(DB, u, ad_data) = "201"
         /\ \/ matched = 0
            \/ ads[matched].available_amount # ad_data.available_amount) =>
            LET after == create_advertisement(DB, u, ad_data, clock, matched)
                n == Len(ads) + 1
            IN /\ after.p2p_trades = p2p_trades
               /\ after.escrows = escrows
               /\ after.wallets = wallets
               /\ after.transactions = transactions
               /\ Len(after.ads) = n
               /\ SubSeq(after.ads, 1, n - 1) = ads
               /\ after.ads[n].available_amount = ad_data.available_amount
               /\ after.ads[n].is_active
               /\ after.notifications =
                     IF matched = 0 THEN notifications
                     ELSE Append(notifications,
                            [user_id |-> IF ad_data.available_amount
                                              > ads[matched].available_amount
                                         THEN u ELSE ads[matched].user_id,
                             type |-> "PARTIAL_MATCH"])

(* A partial match was just notified: two active advertisements of        *)
(* different amounts and no trade                                          *)
C15_Witness ==
    /\ last.op = "create_advertisement"
    /\ Len(ads) = 2
    /\ ads[1].is_active /\ ads[2].is_active
    /\ ads[1].available_amount # ads[2].available_amount
    /\ p2p_trades = <<>>
    /\ notifications # <<>>
    /\ notifications[Len(notifications)].type = "PARTIAL_MATCH"

----------------------------------------------------------------------------
(* Properties of initiate_trade *)

(* The requests initiate_trade is given *)
TradeRequests ==
    {[advertisement_id |-> id, amount |-> fiat] : id \in 1..MaxAds, fiat \in FiatAmounts}

(* What the claim requires of a request the endpoint may serve *)
C16_Admissible(u, trade_data) ==
    /\ trade_data.advertisement_id \in DOMAIN ads
    /\ LET ad == ads[trade_data.advertisement_id]
           crypto == trade_data.amount \div ad.price
           seller == <<IF ad.ad_type = "SELL" THEN ad.user_id ELSE u, ad.currency>>
       IN /\ ad.is_active
          /\ ad.user_id # u
          /\ ad.min_limit <= trade_data.amount
          /\ trade_data.amount <= ad.max_limit
          /\ crypto <= ad.available_amount
          /\ seller \in DOMAIN wallets
          /\ wallets[seller].available_balance >= crypto

(* What the claim requires of a served request *)
C16_Effects(u, trade_data, after) ==
    LET id == trade_data.advertisement_id
        ad == ads[id]
        crypto == trade_data.amount \div ad.price
        seller == <<IF ad.ad_type = "SELL" THEN ad.user_id ELSE u, ad.currency>>
        t == Len(p2p_trades) + 1
        e == Len(escrows) + 1
    IN /\ after.wallets = [wallets EXCEPT ![seller] = Lock(@, crypto)]
       /\ Len(after.escrows) = e
       /\ SubSeq(after.escrows, 1, e - 1) = escrows
       /\ after.escrows[e].status = "LOCKED" /\ after.escrows[e].amount = crypto
       /\ Len(after.p2p_trades) = t
       /\ SubSeq(after.p2p_trades, 1, t - 1) = p2p_trades
       /\ after.p2p_trades[t].status = "PENDING"
       /\ after.p2p_trades[t].amount = crypto
       /\ after.p2p_trades[t].escrow_id = e
       /\ after.p2p_trades[t].seller_id = seller[1]
       /\ after.ads = [ads EXCEPT ![id].available_amount = @ - crypto,
                                  ![id].is_active = ad.available_amount - crypto # 0]

(* C16: initiate_trade succeeds only for an active advertisement of       *)
(* another user, a fiat amount within the limits, a crypto amount the     *)
(* advertisement and the seller's available balance cover; then it locks  *)
(* the crypto amount of the seller, creates an Escrow LOCKED and a        *)
(* P2PTrade PENDING and reduces the advertisement, deactivating it at 0;  *)
(* a refused call changes nothing.                                         *)
C16_InitiateTradeContract ==
    \A u \in Users, trade_data \in TradeRequests :
        LET after == initiate_trade(DB, u, trade_data)
        IN IF InitiateStatus(DB, u, trade_data) = "201"
           THEN C16_Admissible(u, trade_data) /\ C16_Effects(u, trade_data, after)
           ELSE after = DB

(* A trade was just initiated for all that the advertisement had left *)
C16_Witness ==
    /\ last.op = "initiate_trade"
    /\ p2p_trades # <<>>
    /\ LET t == p2p_trades[Len(p2p_trades)]
       IN /\ t.status = "PENDING"
          /\ escrows[t.escrow_id].status = "LOCKED"
          /\ ads[t.advertisement_id].available_amount = 0
          /\ ~ads[t.advertisement_id].is_active
          /\ wallets[<<t.seller_id, t.currency>>].locked_balance = t.amount

----------------------------------------------------------------------------
(* Properties of confirm_payment and cancel_trade *)

(* A balance of a user in a currency; a missing wallet row holds nothing *)
Available(db, u, c) ==
    IF HasWallet(db, u, c) THEN db.wallets[<<u, c>>].available_balance ELSE 0

Locked(db, u, c) ==
    IF HasWallet(db, u, c) THEN db.wallets[<<u, c>>].locked_balance ELSE 0

Holdings(db, u, c) == Available(db, u, c) + Locked(db, u, c)

(* C18: confirm_payment by the seller on a trade in PAYMENT_SENT sets the *)
(* trade to COMPLETED and its escrow to RELEASED, takes the amount from   *)
(* the seller's crypto locked_balance and adds it to the buyer's crypto   *)
(* available_balance, moves total_fiat from the buyer's fiat balance to   *)
(* the seller's, and appends four Transaction rows; the total of each     *)
(* currency over both parties is unchanged, wallets missing or not.       *)
C18_ConfirmPaymentSettles ==
    \A id \in DOMAIN p2p_trades :
        LET t == p2p_trades[id]
            s == t.seller_id
            b == t.buyer_id
            after == confirm_payment(DB, s, id)
        IN (t.status = "PAYMENT_SENT" /\ b # s) =>
             /\ after.p2p_trades[id].status = "COMPLETED"
             /\ after.escrows[t.escrow_id].status = "RELEASED"
             /\ Locked(after, s, t.currency) = Locked(DB, s, t.currency) - t.amount
             /\ Available(after, b, t.currency)
                   = Available(DB, b, t.currency) + t.amount
             /\ Available(after, b, t.fiat_currency)
                   = Available(DB, b, t.fiat_currency) - t.total_fiat
             /\ Available(after, s, t.fiat_currency)
                   = Available(DB, s, t.fiat_currency) + t.total_fiat
             /\ Len(after.transactions) = Len(transactions) + 4
             /\ \A c \in {t.currency, t.fiat_currency} :
                   Holdings(after, b, c) + Holdings(after, s, c)
                     = Holdings(DB, b, c) + Holdings(DB, s, c)

(* The database after a step *)
DBNext == [wallets |-> wallets', orders |-> orders', trades |-> trades',
           transactions |-> transactions', ads |-> ads', p2p_trades |-> p2p_trades',
           escrows |-> escrows', notifications |-> notifications',
           disputes |-> disputes']

(* cancel_trade by the buyer right after the step that created trade id   *)
(* puts back what that step took: the seller's lock and the available     *)
(* amount and active flag of every advertisement                           *)
C19_CancelRestores(id) ==
    LET t == p2p_trades'[id]
        after == cancel_trade(DBNext, t.buyer_id, id)
    IN /\ after.p2p_trades[id].status = "CANCELLED"
       /\ after.escrows[t.escrow_id].status = "REFUNDED"
       /\ Locked(after, t.seller_id, t.currency)
             = Locked(DBNext, t.seller_id, t.currency) - t.amount
       /\ Available(after, t.seller_id, t.currency)
             = Available(DBNext, t.seller_id, t.currency) + t.amount
       /\ \A i \in DOMAIN ads :
             /\ after.ads[i].available_amount = ads[i].available_amount
             /\ after.ads[i].is_active = ads[i].is_active
       /\ \A i \in DOMAIN ads' \ DOMAIN ads :
             /\ after.ads[i].available_amount = t.amount
             /\ after.ads[i].is_active

(* C19: cancel_trade by a party on a trade in PENDING or PAYMENT_SENT     *)
(* sets it to CANCELLED and its escrow to REFUNDED, moves the amount from *)
(* the seller's locked_balance back to available_balance and restores the *)
(* advertisements the trade consumed to their amount before the trade,    *)
(* reactivating those it deactivated; on a trade in any other status it   *)
(* changes nothing.                                                        *)
C19_CancelTradeUndoesTrade ==
    [][/\ Len(p2p_trades') = Len(p2p_trades) + 1 => C19_CancelRestores(Len(p2p_trades'))
       /\ \A u \in Users, id \in DOMAIN p2p_trades :
             p2p_trades[id].status \notin {"PENDING", "PAYMENT_SENT"} =>
                cancel_trade(DB, u, id) = DB]_vars

----------------------------------------------------------------------------
(* The edges a P2P trade's status may take *)
StatusEdges ==
    {<<"PENDING", "PAYMENT_SENT">>, <<"PAYMENT_SENT", "COMPLETED">>,
     <<"PENDING", "CANCELLED">>, <<"PAYMENT_SENT", "CANCELLED">>,
     <<"PENDING", "DISPUTED">>, <<"PAYMENT_SENT", "DISPUTED">>,
     <<"DISPUTED", "CANCELLED">>, <<"DISPUTED", "COMPLETED">>}

(* C17: in every step of the P2P and dispute operations, a trade whose    *)
(* status changes moves along one of the listed edges; in particular a    *)
(* COMPLETED or CANCELLED trade never changes status again                *)
C17_StatusFollowsEdges ==
    [][\A id \in DOMAIN p2p_trades :
          p2p_trades'[id].status # p2p_trades[id].status =>
             <<p2p_trades[id].status, p2p_trades'[id].status>> \in StatusEdges]_vars

----------------------------------------------------------------------------
(* The disputes filed on a trade *)
DisputesOn(db, trade_id) ==
    {i \in DOMAIN db.disputes : db.disputes[i].trade_id = trade_id}

(* What a served create_dispute by u on trade_id leaves behind: one more  *)
(* dispute, OPEN, on that trade and filed by u, the trade DISPUTED, and   *)
(* every other row as it was                                               *)
C20_Filed(u, trade_id, after) ==
    /\ Len(after.disputes) = Len(disputes) + 1
    /\ SubSeq(after.disputes, 1, Len(disputes)) = disputes
    /\ after.disputes[Len(after.disputes)].trade_id = trade_id
    /\ after.disputes[Len(after.disputes)].filed_by = u
    /\ after.disputes[Len(after.disputes)].status = "OPEN"
    /\ after.p2p_trades = [p2p_trades EXCEPT ![trade_id].status = "DISPUTED"]
    /\ after.wallets = wallets /\ after.ads = ads /\ after.escrows = escrows

(* C20: no trade has two disputes; create_dispute is served only for a    *)
(* buyer or seller of a trade that is neither COMPLETED nor CANCELLED and *)
(* has no dispute, and then files one OPEN dispute and sets the trade to  *)
(* DISPUTED; on a trade that is DISPUTED or has a dispute, and for a user *)
(* who is not a party, it is refused and changes nothing                  *)
C20_OneDisputePerTrade ==
    /\ \A trade_id \in DOMAIN p2p_trades : Cardinality(DisputesOn(DB, trade_id)) <= 1
    /\ \A u \in Principals, trade_id \in DOMAIN p2p_trades :
          LET trade == p2p_trades[trade_id]
              served == CreateDisputeStatus(DB, u, trade_id) = "201"
              after == create_dispute(DB, u, trade_id)
          IN /\ served =>
                   /\ u \in {trade.buyer_id, trade.seller_id}
                   /\ trade.status \notin {"COMPLETED", "CANCELLED"}
                   /\ DisputesOn(DB, trade_id) = {}
                   /\ C20_Filed(u, trade_id, after)
             /\ trade.status = "DISPUTED" \/ DisputesOn(DB, trade_id) # {} =>
                   ~served /\ after = DB
             /\ u \notin {trade.buyer_id, trade.seller_id} => ~served /\ after = DB

(* A dispute has just been filed and a second filing by the same party is *)
(* refused                                                                 *)
C20_Witness ==
    /\ last = [op |-> "create_dispute", status |-> "201"]
    /\ Len(disputes) = 1
    /\ p2p_trades[disputes[1].trade_id].status = "DISPUTED"
    /\ CreateDisputeStatus(DB, disputes[1].filed_by, disputes[1].trade_id) = "400"

----------------------------------------------------------------------------
(* The trade an escrow belongs to *)
TradeOfEscrow(e) == CHOOSE id \in DOMAIN p2p_trades : p2p_trades[id].escrow_id = e

(* The escrows whose status a step changes *)
SettledEscrows == {e \in DOMAIN escrows : escrows'[e].status # escrows[e].status}

(* C21: a step that makes an escrow REFUNDED moves its amount from the    *)
(* seller's locked_balance to the seller's available_balance, and a step  *)
(* that makes it RELEASED takes its amount from the seller's              *)
(* locked_balance and credits it to the buyer's available_balance          *)
C21_EscrowStatusMovesFunds ==
    [][\A e \in SettledEscrows :
          LET trade == p2p_trades[TradeOfEscrow(e)]
              s == trade.seller_id
              b == trade.buyer_id
              c == trade.currency
              amount == escrows[e].amount
          IN /\ Locked(DBNext, s, c) = Locked(DB, s, c) - amount
             /\ escrows'[e].status = "REFUNDED" =>
                   Available(DBNext, s, c) = Available(DB, s, c) + amount
             /\ escrows'[e].status = "RELEASED" =>
                   Available(DBNext, b, c) = Available(DB, b, c) + amount]_vars

(* C22: an escrow that is RELEASED or REFUNDED keeps that status in every *)
(* step, so it leaves LOCKED at most once and a second resolution of its  *)
(* dispute cannot give it the other outcome                                *)
C22_EscrowSettlesOnce ==
    [][\A e \in DOMAIN escrows :
          escrows[e].status \in {"RELEASED", "REFUNDED"} =>
             escrows'[e].status = escrows[e].status]_vars

----------------------------------------------------------------------------
(* The advertisements past their time limit at the database's time *)
PastLimit(now) ==
    {a \in DOMAIN ads : now > ads[a].created_at + ads[a].payment_time_limit}

(* C23: in every reachable state, the sweep run now leaves every          *)
(* advertisement past its time limit inactive and every PENDING or        *)
(* PAYMENT_SENT trade on such an advertisement CANCELLED with its escrow  *)
(* REFUNDED, whether or not the advertisement was still active             *)
C23_SweepCancelsExpired ==
    LET after == check_and_expire_ads(DB, clock)
    IN \A a \in PastLimit(clock) :
          /\ ~after.ads[a].is_active
          /\ \A id \in DOMAIN p2p_trades :
                /\ p2p_trades[id].advertisement_id = a
                /\ p2p_trades[id].status \in {"PENDING", "PAYMENT_SENT"}
                => /\ after.p2p_trades[id].status = "CANCELLED"
                   /\ after.escrows[p2p_trades[id].escrow_id].status = "REFUNDED"

----------------------------------------------------------------------------
(* C25: with create_order requests that run at the same time, the trades  *)
(* made against an order add up to at most its quantity and its           *)
(* remaining_quantity is never negative                                    *)
C25_NoOverFillWhenConcurrent ==
    \A i \in DOMAIN orders :
        /\ SumQuantity(trades, TradesOf(i)) <= orders[i].quantity
        /\ orders[i].remaining_quantity >= 0

----------------------------------------------------------------------------
(* C26: an order is FILLED exactly when its remaining_quantity is 0, and  *)
(* an order that took part in a trade, has something left and was not     *)
(* cancelled is PARTIALLY_FILLED, as aggressor and as resting order        *)
C26_StatusMatchesRemaining ==
    \A i \in DOMAIN orders :
        /\ orders[i].status = "FILLED" <=> orders[i].remaining_quantity = 0
        /\ /\ TradesOf(i) # {}
           /\ orders[i].remaining_quantity > 0
           /\ orders[i].status # "CANCELLED"
           => orders[i].status = "PARTIALLY_FILLED"

(* A resting order was used up by two trades: the first aggressor is     *)
(* FILLED, the second has something left and is PARTIALLY_FILLED          *)
C26_Witness ==
    \E t, x \in DOMAIN trades :
        /\ trades[t].resting = trades[x].resting
        /\ orders[trades[t].resting].status = "FILLED"
        /\ orders[trades[t].order_id].status = "FILLED"
        /\ orders[trades[x].order_id].status = "PARTIALLY_FILLED"
        /\ orders[trades[x].order_id].remaining_quantity > 0

----------------------------------------------------------------------------
(* The ways an order's status may change *)
OrderStatusEdges ==
    {<<"PENDING", "PARTIALLY_FILLED">>, <<"PENDING", "FILLED">>,
     <<"PENDING", "CANCELLED">>, <<"PARTIALLY_FILLED", "FILLED">>,
     <<"PARTIALLY_FILLED", "CANCELLED">>}

(* C27: in every step an order whose status changes moves along one of    *)
(* the forward edges; a FILLED or CANCELLED order keeps its status and    *)
(* its remaining_quantity, and cancel_order on it is refused and leaves   *)
(* the database, wallets included, as it was                               *)
C27_OrderStatusMovesForward ==
    [][\A i \in DOMAIN orders :
          /\ orders'[i].status # orders[i].status =>
                <<orders[i].status, orders'[i].status>> \in OrderStatusEdges
          /\ orders[i].status \in {"FILLED", "CANCELLED"} =>
                /\ orders'[i].status = orders[i].status
                /\ orders'[i].remaining_quantity = orders[i].remaining_quantity
                /\ \A u \in Users :
                      /\ CancelStatus(DB, u, i) # "200"
                      /\ CancelOrderCommitted(DB, u, i) = DB]_vars

(* cancel_order has just been refused on an order that is no longer open, *)
(* with an order cancelled after a partial fill and a FILLED order in the *)
(* book                                                                    *)
C27_Witness ==
    /\ last = [op |-> "cancel_order", status |-> "400"]
    /\ \E i \in DOMAIN orders : orders[i].status = "CANCELLED" /\ TradesOf(i) # {}
    /\ \E i \in DOMAIN orders : orders[i].status = "FILLED"

----------------------------------------------------------------------------
(* The disputes a served resolution call has just made RESOLVED *)
JustResolved ==
    {i \in DOMAIN disputes :
        /\ last'.op \in {"resolve_dispute", "resolve_dispute_admin"}
        /\ last'.status = "200"
        /\ disputes[i].status # "RESOLVED"
        /\ disputes'[i].status = "RESOLVED"}

(* C28: a served resolution call that makes a dispute RESOLVED leaves its *)
(* trade CANCELLED with the escrow REFUNDED, or COMPLETED with the escrow *)
(* RELEASED, whatever the refund_to_buyer and release_to_seller flags     *)
C28_ResolutionDecidesTrade ==
    [][\A i \in JustResolved :
          LET trade == p2p_trades'[disputes[i].trade_id]
              escrow == escrows'[trade.escrow_id]
          IN \/ trade.status = "CANCELLED" /\ escrow.status = "REFUNDED"
             \/ trade.status = "COMPLETED" /\ escrow.status = "RELEASED"]_vars

(* An order that rests in the book as a limit order *)
RestingLimit(o) ==
    /\ o.order_subtype = "LIMIT"
    /\ o.status \in OpenStatuses
    /\ o.remaining_quantity > 0

(* C29: between operations (no create_order is in the middle of its       *)
(* matching), the book of an instrument is not crossed: no resting LIMIT  *)
(* BUY order (PENDING or PARTIALLY_FILLED, remaining_quantity > 0) has a  *)
(* price greater than or equal to that of a resting LIMIT SELL order of   *)
(* the same instrument.                                                    *)
C29_BookNeverCrossed ==
    pc.at = "idle" =>
        \A i, j \in DOMAIN orders :
            (/\ RestingLimit(orders[i]) /\ orders[i].order_type = "BUY"
             /\ RestingLimit(orders[j]) /\ orders[j].order_type = "SELL"
             /\ orders[i].instrument = orders[j].instrument)
            => Val(orders[i].price) < Val(orders[j].price)

C29_Witness ==
    /\ pc.at = "idle"
    /\ trades # <<>>
    /\ \E i, j \in DOMAIN orders :
          /\ RestingLimit(orders[i]) /\ orders[i].order_type = "BUY"
          /\ orders[i].status = "PARTIALLY_FILLED"
          /\ RestingLimit(orders[j]) /\ orders[j].order_type = "SELL"
          /\ orders[i].instrument = orders[j].instrument
          /\ Val(orders[i].price) < Val(orders[j].price)

(* C30: no P2P trade has the same user as buyer and as seller, whichever  *)
(* path created it: the auto-match of create_advertisement,               *)
(* initiate_trade, or accept_partial_match with any pair of               *)
(* advertisement ids.                                                      *)
C30_BuyerIsNotSeller ==
    \A i \in DOMAIN p2p_trades : p2p_trades[i].buyer_id # p2p_trades[i].seller_id

============================================================================
